---- MODULE Spec2Model ----
(***************************************************************************)
(* The jest reporter of currents-reporter (packages/jest-reporter/src/     *)
(* reporter.ts): the CustomReporter object, its five lifecycle handlers    *)
(* and the status reducers, as a state machine.                            *)
(*                                                                         *)
(* A handler runs synchronously up to its next await.  A continuation is a *)
(* job of the microtask queue `jobs` (first in, first out); a job whose    *)
(* promise chain needs n reactions is re-queued n-1 times before it runs.  *)
(* A handler waiting for the file system sits in `io` until the operation  *)
(* completes or fails.  The runner may invoke a handler between any two    *)
(* jobs.                                                                   *)
(***************************************************************************)
EXTENDS Integers, Sequences, FiniteSets, TLC

(***************************************************************************)
(* Bounds of the checked runs.                                             *)
(***************************************************************************)
NumProjects == 2
NumTests == 2
MaxAttempts == 2
MaxEvents == 6
MaxResults == 3

ProjectNames == <<"p1", "p2", "p3">>
TestNames == <<"t1", "t2", "t3">>
Projects == {ProjectNames[i] : i \in 1..NumProjects}
TestIds == {TestNames[i] : i \in 1..NumTests}
SpecNames == {"a.test"}
\* a spec file as the runner knows it: <<getProjectId(test), testToSpecName(test)>>
Files == Projects \X SpecNames

\* TestCaseResult["status"] values the runner delivers in the checked runs
Statuses == {"passed", "failed"}
\* every value of the status reducers' domain, with one unexpected kind
AllStatuses == {"passed", "failed", "skipped", "todo", "pending", "disabled", "focused"}
\* Circus.BlockMode: undefined | "skip" | "only" | "todo"
Undefined == "undefined"
Modes == {Undefined, "skip"}

(***************************************************************************)
(* JavaScript objects used as maps: a function whose domain is the set of  *)
(* keys present.                                                           *)
(***************************************************************************)
EmptyMap == [k \in {} |-> 0]
Has(m, k) == k \in DOMAIN m
Put(m, k, v) == [x \in (DOMAIN m) \cup {k} |-> IF x = k THEN v ELSE m[x]]
\* m[k] of a key that may be absent: the string a template literal renders
Get(m, k) == IF Has(m, k) THEN m[k] ELSE Undefined

(***************************************************************************)
(* Identity resolver.                                                      *)
(***************************************************************************)
getSpecKey(projectId, specName) == projectId \o ":" \o specName

getTestCaseKey(projectId, specName, testId) ==
  projectId \o ":" \o specName \o ":" \o testId

\* generateShortHash(specName) + ".json", the hash taken as injective
reportFileName(specName) == "#" \o specName \o ".json"

join(basePath, fileName) ==
  IF basePath = "" THEN fileName ELSE basePath \o "/" \o fileName

(***************************************************************************)
(* Status reducer.                                                         *)
(***************************************************************************)
statusToCurrentsStatus(testStatus) ==
  CASE testStatus = "passed" -> "passed"
    [] testStatus = "failed" -> "failed"
    [] testStatus \in {"skipped", "todo", "pending", "disabled"} -> "pending"
    [] OTHER -> "failed"

\* the status of the last attempt alone
getRawTestStatusOfLast(testCaseResults) ==
  LET s == Get(testCaseResults, Len(testCaseResults))
  IN  CASE s \in {"disabled", "skipped", "todo", "pending"} -> "skipped"
        [] s = "passed" -> "passed"
        [] OTHER -> "failed"

\* testCaseResults: the sequence of the attempts' statuses
getRawTestStatus(testCaseResults) ==
  IF \A i \in 1..Len(testCaseResults) : testCaseResults[i] = testCaseResults[1]
  THEN LET s == Get(testCaseResults, 1)
       IN  CASE s \in {"disabled", "skipped", "todo", "pending"} -> "skipped"
             [] s = "passed" -> "passed"
             [] s = "failed" -> "failed"
             [] OTHER -> "failed"
  ELSE "failed"

getTestCaseStatus(testCaseResults) ==
  statusToCurrentsStatus(getRawTestStatus(testCaseResults))

\* getWorker(skipped).workerIndex, JEST_WORKER_ID unset
getWorker(skipped) == IF skipped THEN -1 ELSE 1

(***************************************************************************)
(* Records of the aggregator.                                              *)
(***************************************************************************)
\* new Deferred() followed by resolve(); gen counts the gate objects the
\* table has held under the key
NewDeferred(table, key) ==
  [resolved |-> TRUE, gen |-> IF Has(table, key) THEN table[key].gen + 1 ELSE 1]

NewSpecInfo(projectId, specName) ==
  [projectId |-> projectId, specName |-> specName, testCaseList |-> <<>>,
   worker |-> getWorker(FALSE)]

\* testCaseList keeps its keys in insertion order (Object.values)
IndexOf(testCaseList, key) ==
  IF \E i \in 1..Len(testCaseList) : testCaseList[i].key = key
  THEN CHOOSE i \in 1..Len(testCaseList) : testCaseList[i].key = key
  ELSE 0


\* an entry of a Spec Record's testCaseList
NewTestCase(key, testId, timestamps, mode, result, skipped) ==
  [key |-> key, id |-> testId, timestamps |-> timestamps, mode |-> mode,
   result |-> result, worker |-> getWorker(skipped)]

(***************************************************************************)
(* A suspended handler: its kind, the place it resumes at (pc), the number *)
(* of promise reactions left before it runs (n) and its local variables.   *)
(* file is the spec file the runner invoked it for; mark notes that a      *)
(* file-result for the same spec key was invoked while it was suspended;   *)
(* at is the number of the runner's event that invoked it and behind the   *)
(* number of case-result handlers of its test-case key suspended then;     *)
(* held notes that it found the run-level gate unresolved.                 *)
(***************************************************************************)
Job(kind, pc, n, file, projectId, testId, status, declared) ==
  [kind |-> kind, pc |-> pc, n |-> n, file |-> file, projectId |-> projectId,
   specName |-> file[2], testId |-> testId, status |-> status,
   declared |-> declared, path |-> "", content |-> <<>>, mark |-> FALSE,
   at |-> 0, behind |-> 0, held |-> FALSE]

\* a handler whose promise rejected, and the place it threw at
Rejection(job) ==
  [kind |-> job.kind, pc |-> job.pc, file |-> job.file, testId |-> job.testId,
   projectId |-> job.projectId]

\* the CustomReporter object after its constructor, with an idle event loop
NewReporter ==
  [reportDir |-> "", instancesDir |-> "", specInfo |-> EmptyMap,
   projectBySpecMap |-> EmptyMap, specsCount |-> 0, processedSpecsCount |-> 0,
   reportDirDeferred |-> FALSE, specInfoDeferred |-> EmptyMap,
   testCaseDeferred |-> EmptyMap, resultsDeferred |-> EmptyMap,
   jobs |-> <<>>, reactions |-> <<>>, io |-> {}, dirs |-> {}, files |-> EmptyMap,
   rejected |-> {}, emitted |-> <<>>, written |-> <<>>]

(***************************************************************************)
(* onRunStart                                                              *)
(***************************************************************************)
RunStartJob(pc, n) == Job("runStart", pc, n, <<"", "">>, "", "", "", <<>>)

onRunStart(r, numTotalTestSuites) ==
  [r EXCEPT !.specsCount = numTotalTestSuites,
            !.io = @ \cup {RunStartJob("createUniqueFolder", 0)}]

\* this.reportDirDeferred.resolve(): the reactions registered on its promise
\* become jobs, in the order they were registered
ResolveReportDir(r) ==
  [r EXCEPT !.reportDirDeferred = TRUE,
            !.jobs = @ \o r.reactions,
            !.reactions = <<>>]

RunStartResume(r, job) ==
  CASE job.pc = "afterUniqueFolder" ->
         [r EXCEPT !.reportDir = "report",
                   !.io = @ \cup {RunStartJob("createFolder", 0)}]
    [] job.pc = "afterInstances" ->
         [r EXCEPT !.instancesDir = join(r.reportDir, "instances"),
                   !.io = @ \cup {RunStartJob("getReportConfig", 0)}]
    [] job.pc = "afterReportConfig" ->
         [r EXCEPT !.io = @ \cup {RunStartJob("writeConfig", 0)}]
    [] job.pc = "afterWriteConfig" -> ResolveReportDir(r)

(***************************************************************************)
(* onTestFileStart                                                         *)
(***************************************************************************)
\* onTestFileStart that goes on without the run-level gate
onTestFileStartNoGate(r, file) ==
  LET specName == file[2]
      projectId == file[1]
      job == Job("fileStart", "afterReportDir", 1, file, projectId, "", "", <<>>)
      r1 == [r EXCEPT !.projectBySpecMap = Put(@, specName, projectId)]
  IN  [r1 EXCEPT !.jobs = Append(@, job)]

onTestFileStart(r, file) ==
  LET specName == file[2]
      projectId == file[1]
      job == Job("fileStart", "afterReportDir", 1, file, projectId, "", "", <<>>)
      r1 == [r EXCEPT !.projectBySpecMap = Put(@, specName, projectId)]
  IN  IF r1.reportDirDeferred
      THEN [r1 EXCEPT !.jobs = Append(@, job)]
      ELSE [r1 EXCEPT !.reactions = Append(@, [job EXCEPT !.held = TRUE])]

FileStartResume(r, job) ==
  LET specKey == getSpecKey(job.projectId, job.specName)
  IN  [r EXCEPT !.specInfo = Put(@, specKey, NewSpecInfo(job.projectId, job.specName)),
                !.specInfoDeferred = Put(@, specKey, NewDeferred(@, specKey))]

(***************************************************************************)
(* onTestCaseStart: no await, it runs to its end when invoked              *)
(***************************************************************************)
EnsureSpecInfo(r, specKey, projectId, specName) ==
  IF ~Has(r.specInfo, specKey)
  THEN [r EXCEPT !.specInfo = Put(@, specKey, NewSpecInfo(projectId, specName)),
                 !.specInfoDeferred = Put(@, specKey, NewDeferred(@, specKey))]
  ELSE r

\* onTestCaseStart that makes a new record for every start
onTestCaseStartAlwaysNew(r, file, testId, mode, startedAt) ==
  LET specName == file[2]
      projectId == Get(r.projectBySpecMap, specName)
      specKey == getSpecKey(projectId, specName)
      r1 == EnsureSpecInfo(r, specKey, projectId, specName)
      testCaseKey == getTestCaseKey(projectId, specName, testId)
  IN  [r1 EXCEPT
        !.specInfo[specKey].testCaseList =
           Append(@, NewTestCase(testCaseKey, testId, <<startedAt>>, mode, <<>>, FALSE)),
        !.testCaseDeferred = Put(@, testCaseKey, NewDeferred(@, testCaseKey))]

onTestCaseStart(r, file, testId, mode, startedAt) ==
  LET specName == file[2]
      projectId == Get(r.projectBySpecMap, specName)
      specKey == getSpecKey(projectId, specName)
      r1 == EnsureSpecInfo(r, specKey, projectId, specName)
      testCaseKey == getTestCaseKey(projectId, specName, testId)
      list == r1.specInfo[specKey].testCaseList
      i == IndexOf(list, testCaseKey)
  IN  IF i = 0
      THEN [r1 EXCEPT
             !.specInfo[specKey].testCaseList =
                Append(@, NewTestCase(testCaseKey, testId, <<startedAt>>, mode, <<>>, FALSE)),
             !.testCaseDeferred = Put(@, testCaseKey, NewDeferred(@, testCaseKey))]
      ELSE [r1 EXCEPT !.specInfo[specKey].testCaseList[i].timestamps = Append(@, startedAt)]

(***************************************************************************)
(* onTestCaseResult                                                        *)
(***************************************************************************)
onTestCaseResult(r, file, testId, status) ==
  LET specName == file[2]
      projectId == Get(r.projectBySpecMap, specName)
      specKey == getSpecKey(projectId, specName)
      job == Job("caseResult", "afterSpecInfo", 1, file, projectId, testId, status, <<>>)
  IN  IF ~Has(r.specInfoDeferred, specKey)
      THEN \* TypeError: this.specInfoDeferred[specKey] is undefined
           [r EXCEPT !.rejected = @ \cup {Rejection([job EXCEPT !.pc = "specInfoDeferred"])}]
      ELSE [r EXCEPT !.jobs = Append(@, job)]

CaseResultAfterTestCase(r, job) ==
  LET specKey == getSpecKey(job.projectId, job.specName)
      testCaseKey == getTestCaseKey(job.projectId, job.specName, job.testId)
      list == r.specInfo[specKey].testCaseList
      r1 == IF IndexOf(list, testCaseKey) = 0
            THEN [r EXCEPT !.specInfo[specKey].testCaseList =
                     Append(@, NewTestCase(testCaseKey, job.testId, <<>>, "skip", <<>>, TRUE))]
            ELSE r
      i == IndexOf(r1.specInfo[specKey].testCaseList, testCaseKey)
  IN  [r1 EXCEPT !.specInfo[specKey].testCaseList[i].result = Append(@, job.status),
                 !.resultsDeferred = Put(@, testCaseKey, NewDeferred(@, testCaseKey))]

\* the handler that does not await a test-case gate it finds
CaseResultAfterSpecInfoNoAwait(r, job) ==
  LET testCaseKey == getTestCaseKey(job.projectId, job.specName, job.testId)
  IN  IF ~Has(r.testCaseDeferred, testCaseKey)
      THEN [r EXCEPT !.testCaseDeferred = Put(@, testCaseKey, NewDeferred(@, testCaseKey)),
                     !.jobs = Append(@, [job EXCEPT !.pc = "afterTestCase", !.n = 1])]
      ELSE CaseResultAfterTestCase(r, job)

CaseResultAfterSpecInfo(r, job) ==
  LET testCaseKey == getTestCaseKey(job.projectId, job.specName, job.testId)
      r1 == IF ~Has(r.testCaseDeferred, testCaseKey)
            THEN [r EXCEPT !.testCaseDeferred = Put(@, testCaseKey, NewDeferred(@, testCaseKey))]
            ELSE r
  IN  [r1 EXCEPT !.jobs = Append(@, [job EXCEPT !.pc = "afterTestCase", !.n = 1])]


(***************************************************************************)
(* onTestFileResult                                                        *)
(***************************************************************************)
\* the callbacks of testResult.testResults.map, each run up to its await, in
\* order from the i-th on: acc.r is the reporter, acc.threw tells that a
\* callback threw a TypeError, acc.awaited that one awaits a results gate
RECURSIVE MapDeclared(_, _, _, _, _)
MapDeclared(acc, projectId, specName, declared, i) ==
  IF i > Len(declared) THEN acc
  ELSE
    LET r == acc.r
        specKey == getSpecKey(projectId, specName)
        testId == declared[i].id
        testCaseKey == getTestCaseKey(projectId, specName, testId)
        next ==
          IF ~Has(r.specInfo, specKey)
          THEN [acc EXCEPT !.threw = TRUE]
          ELSE IF IndexOf(r.specInfo[specKey].testCaseList, testCaseKey) = 0
          THEN [acc EXCEPT !.r.specInfo[specKey].testCaseList =
                  Append(@, NewTestCase(testCaseKey, testId, <<>>, "skip",
                                        <<declared[i].status>>, TRUE))]
          ELSE IF ~Has(r.resultsDeferred, testCaseKey)
          THEN [acc EXCEPT !.threw = TRUE]
          ELSE [acc EXCEPT !.awaited = TRUE]
    IN  MapDeclared(next, projectId, specName, declared, i + 1)

\* the reactions between the invocation and the statement after
\* await Promise.all(...): callback, resolveElement, continuation
AllReactions(threw, awaited, declared) ==
  IF threw THEN 2
  ELSE IF awaited THEN 3
  ELSE IF Len(declared) > 0 THEN 2
  ELSE 1

MarkSuspended(jobs, specKey) ==
  [i \in 1..Len(jobs) |->
     IF jobs[i].kind = "caseResult"
        /\ getSpecKey(jobs[i].projectId, jobs[i].specName) = specKey
     THEN [jobs[i] EXCEPT !.mark = TRUE]
     ELSE jobs[i]]

onTestFileResult(r, file, declared) ==
  LET specName == file[2]
      projectId == Get(r.projectBySpecMap, specName)
      specKey == getSpecKey(projectId, specName)
      acc == MapDeclared([r |-> r, threw |-> FALSE, awaited |-> FALSE],
                         projectId, specName, declared, 1)
      job == Job("fileResult", IF acc.threw THEN "rejectAll" ELSE "afterAll",
                 AllReactions(acc.threw, acc.awaited, declared),
                 file, projectId, "", "", declared)
  IN  [acc.r EXCEPT !.jobs = Append(MarkSuspended(@, specKey), job)]

\* the entry with retries counting the attempts alone
TestEntryWithoutOffset(testCase) ==
  [_t |-> IF Len(testCase.timestamps) > 0 THEN testCase.timestamps[1] ELSE 0,
   testId |-> testCase.id,
   state |-> getTestCaseStatus(testCase.result),
   isFlaky |-> Len(testCase.result) > 1
               /\ testCase.result[Len(testCase.result)] = "passed",
   expectedStatus |-> IF testCase.mode \in {"skip", "todo"} THEN "skipped" ELSE "passed",
   retries |-> Len(testCase.result),
   attempts |->
     [index \in 1..Len(testCase.result) |->
        [_s |-> getTestCaseStatus(<<testCase.result[index]>>),
         workerIndex |-> testCase.worker,
         startTime |-> IF index <= Len(testCase.timestamps)
                       THEN testCase.timestamps[index] ELSE 0,
         status |-> getRawTestStatus(<<testCase.result[index]>>)]]]

TestEntry(testCase) ==
  [_t |-> IF Len(testCase.timestamps) > 0 THEN testCase.timestamps[1] ELSE 0,
   testId |-> testCase.id,
   state |-> getTestCaseStatus(testCase.result),
   isFlaky |-> Len(testCase.result) > 1
               /\ testCase.result[Len(testCase.result)] = "passed",
   expectedStatus |-> IF testCase.mode \in {"skip", "todo"} THEN "skipped" ELSE "passed",
   retries |-> Len(testCase.result) + 1,
   attempts |->
     [index \in 1..Len(testCase.result) |->
        [_s |-> getTestCaseStatus(<<testCase.result[index]>>),
         workerIndex |-> testCase.worker,
         startTime |-> IF index <= Len(testCase.timestamps)
                       THEN testCase.timestamps[index] ELSE 0,
         status |-> getRawTestStatus(<<testCase.result[index]>>)]]]

CountStatus(declared, statuses) ==
  Cardinality({i \in 1..Len(declared) : declared[i].status \in statuses})

InstanceReport(specInfo, declared) ==
  LET tests == [i \in 1..Len(specInfo.testCaseList) |-> TestEntry(specInfo.testCaseList[i])]
      flakyCount == Cardinality({i \in 1..Len(tests) : tests[i].isFlaky})
  IN  [groupId |-> specInfo.projectId,
       spec |-> specInfo.specName,
       worker |-> specInfo.worker,
       results |->
         [stats |-> [suites |-> 1,
                     tests |-> Len(declared),
                     passes |-> CountStatus(declared, {"passed"}),
                     pending |-> 0,
                     skipped |-> CountStatus(declared, {"pending", "todo"}),
                     failures |-> CountStatus(declared, {"failed"}),
                     flaky |-> flakyCount],
          tests |-> tests]]

\* case-result handlers marked by this spec key's file-result and still queued
Missed(jobs, specKey) ==
  Cardinality({i \in 1..Len(jobs) :
     /\ jobs[i].kind = "caseResult"
     /\ jobs[i].mark
     /\ getSpecKey(jobs[i].projectId, jobs[i].specName) = specKey})

\* from the statement after await Promise.all(...) to the call of fs.writeFile
FileResultAfterAll(r, job) ==
  LET specKey == getSpecKey(job.projectId, job.specName)
  IN  IF ~Has(r.specInfo, specKey)
      THEN [r EXCEPT !.rejected = @ \cup {Rejection(job)}]
      ELSE
        LET result == InstanceReport(r.specInfo[specKey], job.declared)
            path == join(r.instancesDir, reportFileName(r.specInfo[specKey].specName))
        IN  [r EXCEPT
              !.io = @ \cup {[job EXCEPT !.pc = "writeReport", !.n = 0,
                                         !.path = path, !.content = result]},
              !.emitted = Append(@, [file |-> job.file, specKey |-> specKey,
                                     path |-> path, report |-> result,
                                     missed |-> Missed(r.jobs, specKey)])]

FileResultResume(r, job) ==
  CASE job.pc = "rejectAll" -> [r EXCEPT !.rejected = @ \cup {Rejection(job)}]
    [] job.pc = "afterAll" -> FileResultAfterAll(r, job)
    [] job.pc = "afterWriteReport" ->
         [r EXCEPT !.processedSpecsCount = @ + 1]

(***************************************************************************)
(* The event loop.                                                         *)
(***************************************************************************)
Resume(r, job) ==
  CASE job.kind = "runStart" -> RunStartResume(r, job)
    [] job.kind = "fileStart" -> FileStartResume(r, job)
    [] job.kind = "caseResult" /\ job.pc = "afterSpecInfo" -> CaseResultAfterSpecInfo(r, job)
    [] job.kind = "caseResult" /\ job.pc = "afterTestCase" -> CaseResultAfterTestCase(r, job)
    [] job.kind = "fileResult" -> FileResultResume(r, job)

\* the first job of the microtask queue runs
RunJob(r) ==
  LET job == Head(r.jobs)
      r1 == [r EXCEPT !.jobs = Tail(@)]
  IN  IF job.n > 1
      THEN [r1 EXCEPT !.jobs = Append(@, [job EXCEPT !.n = @ - 1])]
      ELSE Resume(r1, job)

\* fs.ensureDir / fs.writeFile / getReportConfig settles, which the event loop
\* delivers when the microtask queue is empty; the reactions of the async
\* functions around the call then run with nothing between them, so the
\* awaiting handler is queued as one job
IoDone(r, job) ==
  LET r1 == [r EXCEPT !.io = @ \ {job}]
      then(pc, n) == Append(r1.jobs, [job EXCEPT !.pc = pc, !.n = 1])
  IN  CASE job.pc = "createUniqueFolder" ->
             [r1 EXCEPT !.dirs = @ \cup {"report"}, !.jobs = then("afterUniqueFolder", 1)]
        [] job.pc = "createFolder" ->
             [r1 EXCEPT !.dirs = @ \cup {join(r.reportDir, "instances")},
                        !.jobs = then("afterInstances", 1)]
        [] job.pc = "getReportConfig" ->
             [r1 EXCEPT !.jobs = then("afterReportConfig", 1)]
        [] job.pc = "writeConfig" ->
             [r1 EXCEPT !.files = Put(@, join(r.reportDir, "config.json"), "config"),
                        !.jobs = then("afterWriteConfig", 1)]
        [] job.pc = "writeReport" ->
             [r1 EXCEPT !.files = Put(@, job.path, job.content),
                        !.written = Append(@, [specKey |-> getSpecKey(job.projectId, job.specName),
                                               file |-> job.file, path |-> job.path]),
                        !.jobs = then("afterWriteReport", 1)]

\* a failed write of a report counted as a processed spec
IoFailedCounted(r, job) ==
  [r EXCEPT !.io = @ \ {job}, !.rejected = @ \cup {Rejection(job)},
            !.processedSpecsCount = IF job.pc = "writeReport" THEN @ + 1 ELSE @]

\* the operation fails: createFolder / writeFileAsync log and re-throw
IoFailed(r, job) ==
  [r EXCEPT !.io = @ \ {job}, !.rejected = @ \cup {Rejection(job)}]


(***************************************************************************)
(* The run: the reporter, what the runner has invoked so far, and the      *)
(* scope of the run (the spec files and tests the runner has, the attempts *)
(* it makes of a test, the modes and outcomes of its tests, the number of   *)
(* events it delivers, and whether it awaits onRunStart before it delivers *)
(* anything else, as jest's dispatcher does).                              *)
(***************************************************************************)
VARIABLES rep, sent, scope, twin, plan, reduced

vars == <<rep, sent, scope, twin, plan, reduced>>

\* twin is a second reporter and plan the events left to deliver to rep and to
\* twin, for the runs that compare two orders of the same events
\* reduced is the Test Case Record handed to the status reducer and the entry
\* computed from it, for the runs that exercise the reducer alone
others == <<scope, twin, plan, reduced>>

NotReduced == [phase |-> "none"]

Cases == Files \X TestIds

FirstFile == <<ProjectNames[1], "a.test">>
FirstTest == TestNames[1]

\* every event of a run: run-start, and per file its start, its result and
\* the start and result of every attempt of every test
AllEvents(files, tests, attempts) ==
  1 + Cardinality(files) * (2 + 2 * attempts * Cardinality(tests))

InitRun(files, tests, attempts, modes, statuses, events, awaitsRunStart) ==
  /\ rep = NewReporter
  /\ sent = [events |-> 0, run |-> FALSE, fileStart |-> {}, fileResult |-> EmptyMap,
             caseStart |-> [c \in Cases |-> 0],
             caseResult |-> [c \in Cases |-> <<>>],
             race |-> [c \in Cases |-> "none"],
             keys |-> [c \in Cases |-> {}],
             inFile |-> [c \in Cases |-> TRUE]]
  /\ scope = [files |-> files, tests |-> tests, attempts |-> attempts,
              modes |-> modes, statuses |-> statuses, events |-> events,
              awaitsRunStart |-> awaitsRunStart]
  /\ twin = NewReporter
  /\ plan = [first |-> <<>>, second |-> <<>>]
  /\ reduced = NotReduced

\* the same, with a plan: the events in two orders, one for rep, one for twin
InitPlanned(files, tests, first, second) ==
  /\ rep = NewReporter
  /\ sent = [events |-> 0, run |-> FALSE, fileStart |-> {}, fileResult |-> EmptyMap,
             caseStart |-> [c \in Cases |-> 0],
             caseResult |-> [c \in Cases |-> <<>>],
             race |-> [c \in Cases |-> "none"],
             keys |-> [c \in Cases |-> {}],
             inFile |-> [c \in Cases |-> TRUE]]
  /\ scope = [files |-> files, tests |-> tests, attempts |-> 1,
              modes |-> Modes, statuses |-> Statuses, events |-> 0,
              awaitsRunStart |-> TRUE]
  /\ twin = NewReporter
  /\ plan = [first |-> first, second |-> second]
  /\ reduced = NotReduced

\* one spec file with one test that is retried
Init ==
  InitRun({FirstFile}, {FirstTest}, MaxAttempts, Modes, Statuses,
          AllEvents({FirstFile}, {FirstTest}, MaxAttempts), TRUE)

\* one spec file with one test run once; the runner does not wait for
\* onRunStart, so the handlers of the file race with it
InitRace ==
  InitRun({FirstFile}, {FirstTest}, 1, Modes, Statuses,
          AllEvents({FirstFile}, {FirstTest}, 1), FALSE)

\* one spec file with several tests, each run once
InitTests ==
  InitRun({FirstFile}, TestIds, 1, {Undefined}, Statuses,
          AllEvents({FirstFile}, TestIds, 1), TRUE)

\* several projects that each have the spec file, with one test run once
InitProjects ==
  InitRun(Files, {FirstTest}, 1, {Undefined}, {"passed"}, MaxEvents, TRUE)

\* the declared tests of a file-level result: the tests of D in the file's
\* order, each with its last delivered outcome, or pending if it never ran
RECURSIVE Declared(_, _, _)
Declared(file, D, i) ==
  IF i > NumTests THEN <<>>
  ELSE LET t == TestNames[i]
           outcomes == sent.caseResult[<<file, t>>]
           rest == Declared(file, D, i + 1)
       IN  IF t \in D
           THEN <<[id |-> t,
                   status |-> IF Len(outcomes) > 0 THEN outcomes[Len(outcomes)]
                              ELSE "pending"]>> \o rest
           ELSE rest

\* a handler of this kind that the runner invoked for the file (and test) is
\* still suspended
Suspended(kind, file, testId) ==
  \/ \E i \in 1..Len(rep.jobs) :
       rep.jobs[i].kind = kind /\ rep.jobs[i].file = file /\ rep.jobs[i].testId = testId
  \/ \E i \in 1..Len(rep.reactions) :
       rep.reactions[i].kind = kind /\ rep.reactions[i].file = file
  \/ \E job \in rep.io : job.kind = kind /\ job.file = file

FileStartDone(file) ==
  file \in sent.fileStart /\ ~Suspended("fileStart", file, "")

\* the case-results delivered for the case have all been appended
ResultsAppended(file, testId) ==
  /\ ~Suspended("caseResult", file, testId)
  /\ \A x \in rep.rejected : ~(x.kind = "caseResult" /\ x.file = file /\ x.testId = testId)

\* the keys the handlers resolve for an event of the file, as they compute them
ResolvedSpecKey(file) == getSpecKey(Get(rep.projectBySpecMap, file[2]), file[2])
ResolvedCaseKey(file, testId) ==
  getTestCaseKey(Get(rep.projectBySpecMap, file[2]), file[2], testId)

\* sent.inFile[case]: every event of the case so far was delivered after the
\* file-start of its file had finished.
\* sent.race[case]: how the case's starts and results arrived.
\*   "paired":      every result so far was delivered after its start, and
\*                  every start after the result of the attempt before
\*   "resultFirst": one result, delivered when the file's start was done and
\*                  no start of the case had been delivered
\*   "lateStart":   then one start, delivered when that result was appended
RaceAfterResult(file, testId) ==
  LET c == <<file, testId>>
  IN  IF sent.race[c] = "paired" /\ sent.caseStart[c] = Len(sent.caseResult[c]) + 1
      THEN "paired"
      ELSE IF /\ sent.race[c] = "none"
              /\ sent.caseStart[c] = 0
              /\ sent.caseResult[c] = <<>>
              /\ FileStartDone(file)
      THEN "resultFirst"
      ELSE "other"

RaceAfterStart(file, testId) ==
  LET c == <<file, testId>>
  IN  IF sent.race[c] \in {"none", "paired"} /\ sent.caseStart[c] = Len(sent.caseResult[c])
      THEN "paired"
      ELSE IF sent.race[c] = "resultFirst" /\ ResultsAppended(file, testId)
      THEN "lateStart"
      ELSE "other"

\* sent.fileResult[file]: what the file-result handler found when invoked
Unresulted(file, declared) ==
  LET specKey == ResolvedSpecKey(file)
  IN  IF ~Has(rep.specInfo, specKey) THEN {}
      ELSE {declared[i].id : i \in
             {i \in 1..Len(declared) :
                LET list == rep.specInfo[specKey].testCaseList
                    k == IndexOf(list, ResolvedCaseKey(file, declared[i].id))
                IN  k # 0 /\ list[k].result = <<>>}}

\* the declared tests without a record under the key file-result resolves
Unrecorded(file, declared) ==
  LET specKey == ResolvedSpecKey(file)
  IN  IF ~Has(rep.specInfo, specKey) THEN {}
      ELSE {declared[i].id : i \in
             {i \in 1..Len(declared) :
                IndexOf(rep.specInfo[specKey].testCaseList,
                        ResolvedCaseKey(file, declared[i].id)) = 0}}

\* the declared tests whose starts and results were delivered in pairs and
\* all processed
Processed(file, declared) ==
  {declared[i].id : i \in
     {i \in 1..Len(declared) :
        LET c == <<file, declared[i].id>>
        IN  /\ sent.race[c] = "paired"
            /\ sent.caseStart[c] = Len(sent.caseResult[c])
            /\ ResultsAppended(file, declared[i].id)}}

FoundAtFileResult(file, declared) ==
  [at |-> sent.events,
   started |-> FileStartDone(file),
   declared |-> {declared[i].id : i \in 1..Len(declared)},
   synthesized |-> Unrecorded(file, declared),
   processed |-> Processed(file, declared),
   specExisted |-> Has(rep.specInfo, ResolvedSpecKey(file)),
   unresulted |-> Unresulted(file, declared),
   lateStart |-> {declared[i].id : i \in
                    {i \in 1..Len(declared) :
                       sent.race[<<file, declared[i].id>>] = "lateStart"}},
   late |-> \A t \in scope.tests :
              /\ sent.caseStart[<<file, t>>] = Len(sent.caseResult[<<file, t>>])
              /\ sent.caseStart[<<file, t>>] > 0
                   => \E i \in 1..Len(declared) : declared[i].id = t]

\* the runner has an event left to deliver
MayInvoke == sent.events < scope.events

\* the runner delivers the events of a file once onRunStart has returned
Delivers == MayInvoke /\ (scope.awaitsRunStart => rep.reportDirDeferred)

RunStart ==
  /\ MayInvoke
  /\ ~sent.run
  /\ rep' = onRunStart(rep, Cardinality(scope.files))
  /\ sent' = [sent EXCEPT !.run = TRUE, !.events = @ + 1]
  /\ UNCHANGED others

FileStart(file) ==
  /\ Delivers
  /\ file \notin sent.fileStart
  /\ rep' = onTestFileStart(rep, file)
  /\ sent' = [sent EXCEPT !.fileStart = @ \cup {file}, !.events = @ + 1]
  /\ UNCHANGED others

CaseStart(file, testId, mode) ==
  /\ Delivers
  /\ sent.caseStart[<<file, testId>>] < scope.attempts
  /\ rep' = onTestCaseStart(rep, file, testId, mode, sent.caseStart[<<file, testId>>] + 1)
  /\ sent' = [sent EXCEPT !.caseStart[<<file, testId>>] = @ + 1,
                          !.race[<<file, testId>>] = RaceAfterStart(file, testId),
                          !.keys[<<file, testId>>] = @ \cup {ResolvedCaseKey(file, testId)},
                          !.inFile[<<file, testId>>] = @ /\ FileStartDone(file),
                          !.events = @ + 1]
  /\ UNCHANGED others

\* the case-result handlers suspended under a test-case key
PendingResults(jobs, testCaseKey) ==
  {i \in 1..Len(jobs) :
     /\ jobs[i].kind = "caseResult"
     /\ getTestCaseKey(jobs[i].projectId, jobs[i].specName, jobs[i].testId) = testCaseKey}

\* the handler the invocation suspended, if it did, noted with the number of
\* the event and with the handlers of its key suspended before it
Invoked(before, after, at) ==
  IF Len(after.jobs) > Len(before.jobs)
  THEN LET job == after.jobs[Len(after.jobs)]
           testCaseKey == getTestCaseKey(job.projectId, job.specName, job.testId)
       IN  [after EXCEPT !.jobs[Len(after.jobs)] =
              [job EXCEPT !.at = at,
                          !.behind = Cardinality(PendingResults(before.jobs, testCaseKey))]]
  ELSE after

CaseResult(file, testId, status) ==
  /\ Delivers
  /\ Len(sent.caseResult[<<file, testId>>]) < scope.attempts
  /\ rep' = Invoked(rep, onTestCaseResult(rep, file, testId, status), sent.events + 1)
  /\ sent' = [sent EXCEPT !.caseResult[<<file, testId>>] = Append(@, status),
                          !.race[<<file, testId>>] = RaceAfterResult(file, testId),
                          !.keys[<<file, testId>>] = @ \cup {ResolvedCaseKey(file, testId)},
                          !.inFile[<<file, testId>>] = @ /\ FileStartDone(file),
                          !.events = @ + 1]
  /\ UNCHANGED others

FileResult(file, D) ==
  /\ Delivers
  /\ ~Has(sent.fileResult, file)
  /\ rep' = onTestFileResult(rep, file, Declared(file, D, 1))
  /\ sent' = [sent EXCEPT
                !.fileResult = Put(@, file, FoundAtFileResult(file, Declared(file, D, 1))),
                !.events = @ + 1]
  /\ UNCHANGED others

Microtask ==
  /\ rep.jobs # <<>>
  /\ rep' = RunJob(rep)
  /\ UNCHANGED <<sent, others>>

IoCompletes ==
  /\ rep.jobs = <<>>
  /\ \E job \in rep.io : rep' = IoDone(rep, job)
  /\ UNCHANGED <<sent, others>>

IoFails ==
  /\ rep.jobs = <<>>
  /\ \E job \in rep.io : job.pc # "getReportConfig" /\ rep' = IoFailed(rep, job)
  /\ UNCHANGED <<sent, others>>

Next ==
  \/ RunStart
  \/ \E file \in scope.files : FileStart(file)
  \/ \E file \in scope.files, testId \in scope.tests, mode \in scope.modes :
       CaseStart(file, testId, mode)
  \/ \E file \in scope.files, testId \in scope.tests, status \in scope.statuses :
       CaseResult(file, testId, status)
  \/ \E file \in scope.files, D \in SUBSET scope.tests : FileResult(file, D)
  \/ Microtask
  \/ IoCompletes
  \/ IoFails

Spec == Init /\ [][Next]_vars

SpecRace == InitRace /\ [][Next]_vars

SpecTests == InitTests /\ [][Next]_vars

SpecProjects == InitProjects /\ [][Next]_vars


(***************************************************************************)
(* The event loop is fair: a queued continuation runs, and a file-system   *)
(* operation under way settles.  The runner owes no event.                 *)
(***************************************************************************)
\* one spec file with one test run once, delivered after onRunStart returned
InitOnce ==
  InitRun({FirstFile}, {FirstTest}, 1, Modes, Statuses,
          AllEvents({FirstFile}, {FirstTest}, 1), TRUE)

Fairness == WF_vars(Microtask) /\ WF_vars(IoCompletes \/ IoFails)

SpecLive == InitOnce /\ [][Next]_vars /\ Fairness

(***************************************************************************)
(* Two orders of the same events.  The runner delivers to rep the events   *)
(* of one spec file with the start/result pairs of its tests in one order, *)
(* then to twin the same events with the pairs in another order; each      *)
(* event is delivered when the handlers before it have finished.           *)
(***************************************************************************)
Event(kind, file, testId, mode, status, declared) ==
  [kind |-> kind, file |-> file, testId |-> testId, mode |-> mode,
   status |-> status, declared |-> declared]

\* the runner calls the handler of the event
Deliver(r, ev) ==
  CASE ev.kind = "runStart" -> onRunStart(r, 1)
    [] ev.kind = "fileStart" -> onTestFileStart(r, ev.file)
    [] ev.kind = "caseStart" -> onTestCaseStart(r, ev.file, ev.testId, ev.mode, 1)
    [] ev.kind = "caseResult" -> onTestCaseResult(r, ev.file, ev.testId, ev.status)
    [] ev.kind = "fileResult" -> onTestFileResult(r, ev.file, ev.declared)

\* the orders of the tests
Orders(tests) ==
  {o \in [1..Cardinality(tests) -> tests] :
     \A i, j \in 1..Cardinality(tests) : o[i] = o[j] => i = j}

RECURSIVE Pairs(_, _, _, _)
Pairs(file, order, tc, i) ==
  IF i > Len(order) THEN <<>>
  ELSE <<Event("caseStart", file, order[i], tc[order[i]].mode, "", <<>>),
         Event("caseResult", file, order[i], "", tc[order[i]].status, <<>>)>>
       \o Pairs(file, order, tc, i + 1)

RECURSIVE DeclaredOf(_, _, _)
DeclaredOf(D, tc, i) ==
  IF i > NumTests THEN <<>>
  ELSE IF TestNames[i] \in D
  THEN <<[id |-> TestNames[i], status |-> tc[TestNames[i]].status]>> \o DeclaredOf(D, tc, i + 1)
  ELSE DeclaredOf(D, tc, i + 1)

EventsInOrder(file, order, tc, D) ==
  <<Event("runStart", file, "", "", "", <<>>), Event("fileStart", file, "", "", "", <<>>)>>
  \o Pairs(file, order, tc, 1)
  \o <<Event("fileResult", file, "", "", "", DeclaredOf(D, tc, 1))>>

InitOrders ==
  \E first \in Orders(TestIds), second \in Orders(TestIds),
     tc \in [TestIds -> [mode : Modes, status : Statuses]], D \in SUBSET TestIds :
    InitPlanned({FirstFile}, TestIds,
                EventsInOrder(FirstFile, first, tc, D),
                EventsInOrder(FirstFile, second, tc, D))

Settled(r) == r.jobs = <<>> /\ r.io = {}

DeliverFirst ==
  /\ plan.first # <<>>
  /\ Settled(rep)
  /\ rep' = Deliver(rep, Head(plan.first))
  /\ plan' = [plan EXCEPT !.first = Tail(@)]
  /\ UNCHANGED <<sent, scope, twin, reduced>>

DeliverSecond ==
  /\ plan.first = <<>>
  /\ Settled(rep)
  /\ plan.second # <<>>
  /\ Settled(twin)
  /\ twin' = Deliver(twin, Head(plan.second))
  /\ plan' = [plan EXCEPT !.second = Tail(@)]
  /\ UNCHANGED <<rep, sent, scope, reduced>>

TwinMicrotask ==
  /\ twin.jobs # <<>>
  /\ twin' = RunJob(twin)
  /\ UNCHANGED <<rep, sent, scope, plan, reduced>>

TwinIoCompletes ==
  /\ twin.jobs = <<>>
  /\ \E job \in twin.io : twin' = IoDone(twin, job)
  /\ UNCHANGED <<rep, sent, scope, plan, reduced>>

NextOrders ==
  \/ DeliverFirst
  \/ DeliverSecond
  \/ Microtask
  \/ IoCompletes
  \/ TwinMicrotask
  \/ TwinIoCompletes

SpecOrders == InitOrders /\ [][NextOrders]_vars

(***************************************************************************)
(* The status reducer alone: a Test Case Record with up to MaxResults      *)
(* attempts of any outcome, in any mode, is mapped to its report entry as  *)
(* onTestFileResult maps the records of a spec.                            *)
(***************************************************************************)
ResultLists == UNION {[1..n -> AllStatuses] : n \in 0..MaxResults}

RecordModes == {Undefined, "skip", "todo"}

InitReducer ==
  /\ rep = NewReporter
  /\ sent = [events |-> 0, run |-> FALSE, fileStart |-> {}, fileResult |-> EmptyMap,
             caseStart |-> [c \in Cases |-> 0],
             caseResult |-> [c \in Cases |-> <<>>],
             race |-> [c \in Cases |-> "none"],
             keys |-> [c \in Cases |-> {}],
             inFile |-> [c \in Cases |-> TRUE]]
  /\ scope = [files |-> {FirstFile}, tests |-> {FirstTest}, attempts |-> MaxResults,
              modes |-> RecordModes, statuses |-> AllStatuses, events |-> 0,
              awaitsRunStart |-> TRUE]
  /\ twin = NewReporter
  /\ plan = [first |-> <<>>, second |-> <<>>]
  /\ reduced \in {[phase |-> "record",
                   testCase |-> NewTestCase(getTestCaseKey(FirstFile[1], FirstFile[2], FirstTest),
                                            FirstTest, <<>>, mode, result, FALSE)] :
                    mode \in RecordModes, result \in ResultLists}

\* the callback of Object.values(testCaseList).map in onTestFileResult
Reduce ==
  /\ reduced.phase = "record"
  /\ reduced' = [phase |-> "entry",
                 testCase |-> reduced.testCase,
                 raw |-> getRawTestStatus(reduced.testCase.result),
                 entry |-> TestEntry(reduced.testCase)]
  /\ UNCHANGED <<rep, sent, scope, twin, plan>>

NextReducer == Reduce

SpecReducer == InitReducer /\ [][NextReducer]_vars


(***************************************************************************)
(* Properties.                                                             *)
(***************************************************************************)
IoPlaces == {"createUniqueFolder", "createFolder", "writeConfig", "writeReport"}

NoIoFailure == \A x \in rep.rejected : x.pc \notin IoPlaces

\* nothing is queued and no file-system operation is under way
Quiescent == rep.jobs = <<>> /\ rep.io = {}

\* the runner has delivered run-start, the file's start and result, and for
\* each of its tests a result after every start; when file-result was invoked,
\* file-start had finished and the case events had been delivered, each for a
\* test the file's result declares
DeliveredOnce(file) ==
  /\ sent.run
  /\ \A t \in scope.tests : sent.race[<<file, t>>] \in {"none", "paired"}
  /\ file \in sent.fileStart
  /\ Has(sent.fileResult, file)
  /\ sent.fileResult[file].started
  /\ sent.fileResult[file].late
  /\ \A t \in scope.tests : sent.caseStart[<<file, t>>] = Len(sent.caseResult[<<file, t>>])

ReportsWritten(specKey) ==
  Cardinality({i \in 1..Len(rep.written) : rep.written[i].specKey = specKey})

\* C1: once every handler has finished, without a file-system failure, a run
\* in which the runner delivered each event of a spec once has written exactly
\* one report for that spec key.
C1_ExactlyOneReportPerSpec ==
  (Quiescent /\ NoIoFailure) =>
    \A file \in scope.files :
      DeliveredOnce(file) => ReportsWritten(getSpecKey(file[1], file[2])) = 1

\* C2: when a file-result invoked after its file-start finished computes the
\* report of the spec, no case-result handler of that spec invoked before it is
\* still suspended.
C2_NoSuspendedResultAtEmission ==
  \A i \in 1..Len(rep.emitted) :
    sent.fileResult[rep.emitted[i].file].started => rep.emitted[i].missed = 0

\* C3: a file-result invoked, after its file-start finished, while a declared
\* test has a record without a result does not fail at its gates, and the
\* report it computes has an attempt for that test.
C3_FileResultAwaitsResult ==
  /\ \A x \in rep.rejected :
       (x.kind = "fileResult" /\ x.pc = "rejectAll" /\ sent.fileResult[x.file].started)
         => sent.fileResult[x.file].unresulted = {}
  /\ \A i \in 1..Len(rep.emitted) :
       LET e == rep.emitted[i]
           tests == e.report.results.tests
       IN  sent.fileResult[e.file].started =>
             \A t \in sent.fileResult[e.file].unresulted :
               \E k \in 1..Len(tests) : tests[k].testId = t /\ Len(tests[k].attempts) >= 1

\* C4: a case-result handler invoked after the file-start of its spec file was
\* invoked (so that it resolves the file's project) does not fail, whether or
\* not the spec's record and gate exist yet.
C4_CaseResultNeverFails ==
  \A x \in rep.rejected : x.kind = "caseResult" => x.projectId # x.file[1]

\* C5: when file-start resumes after the run-level gate and the spec's record
\* exists already, the record's test case list stays as it is.
C5_FileStartKeepsRecord ==
  [][(/\ rep.jobs # <<>>
      /\ Head(rep.jobs).kind = "fileStart"
      /\ sent' = sent
      /\ rep' # rep)
       => LET specKey == getSpecKey(Head(rep.jobs).projectId, Head(rep.jobs).specName)
          IN  Has(rep.specInfo, specKey)
                => rep'.specInfo[specKey].testCaseList = rep.specInfo[specKey].testCaseList]_vars


\* C6: the reports of two runs that deliver the same events of a spec, with the
\* start/result pairs of its tests in two orders, are equal.
C6_ReportIndependentOfOrder ==
  (Len(rep.emitted) > 0 /\ Len(twin.emitted) > 0)
    => rep.emitted[1].report = twin.emitted[1].report


\* the Test Case Records kept for a test of a spec file, under any key
RecordsOf(file, testId) ==
  {<<k, i>> \in (DOMAIN rep.specInfo) \X (1..(NumTests * 2)) :
     /\ rep.specInfo[k].specName = file[2]
     /\ i <= Len(rep.specInfo[k].testCaseList)
     /\ rep.specInfo[k].testCaseList[i].id = testId}

AttemptsOf(ki) == Len(rep.specInfo[ki[1]].testCaseList[ki[2]].result)

\* C7: after N start/result pairs of one test have been delivered, each start
\* before its result, and processed (and before the file's result is
\* delivered), the events resolved to one test-case key, one Test Case Record
\* exists for the test and it has N attempts.
C7_KeyStability ==
  \A file \in scope.files, t \in scope.tests :
    LET N == sent.caseStart[<<file, t>>]
    IN  (/\ N >= 1
         /\ sent.race[<<file, t>>] = "paired"
         /\ Len(sent.caseResult[<<file, t>>]) = N
         /\ ~Suspended("caseResult", file, t)
         /\ ~Suspended("fileStart", file, "")
         /\ ~Has(sent.fileResult, file))
        => /\ Cardinality(sent.keys[<<file, t>>]) = 1
           /\ Cardinality(RecordsOf(file, t)) = 1
           /\ \A ki \in RecordsOf(file, t) : AttemptsOf(ki) = N

\* C8: the events of one test case all resolve to the same test-case key.
C8_OneKeyPerCase ==
  \A c \in Cases : Cardinality(sent.keys[c]) <= 1

\* C9: when the only result of a test was processed before its only start
\* (file-start done) and file-result, declaring the test, was invoked after the
\* late start, then once every handler has finished a report of the file has
\* been computed, and each report of the file has exactly one entry for the
\* test, with one attempt.
C9_ResultBeforeStart ==
  \A file \in DOMAIN sent.fileResult :
    \A t \in sent.fileResult[file].lateStart :
      (/\ sent.caseStart[<<file, t>>] = 1
       /\ Len(sent.caseResult[<<file, t>>]) = 1
       /\ Quiescent)
        => /\ \E i \in 1..Len(rep.emitted) : rep.emitted[i].file = file
           /\ \A i \in 1..Len(rep.emitted) :
                rep.emitted[i].file = file =>
                  LET tests == rep.emitted[i].report.results.tests
                  IN  /\ Cardinality({k \in 1..Len(tests) : tests[k].testId = t}) = 1
                      /\ \A k \in 1..Len(tests) :
                           tests[k].testId = t => Len(tests[k].attempts) = 1

EntriesOf(tests, t) == {k \in 1..Len(tests) : tests[k].testId = t}

\* C11: in a report computed by file-result (file-start done), a declared test
\* that never had a case-start or case-result has exactly one entry, in skip
\* mode, with one attempt, the declared outcome; and a declared test whose
\* starts and results were processed before file-result was invoked has
\* exactly one entry and was not synthesized by file-result.
C11_SynthesizesOnlyMissing ==
  \A i \in 1..Len(rep.emitted) :
    LET e == rep.emitted[i]
        found == sent.fileResult[e.file]
        tests == e.report.results.tests
    IN  found.started =>
          /\ \A t \in found.declared :
               (sent.caseStart[<<e.file, t>>] = 0 /\ sent.caseResult[<<e.file, t>>] = <<>>)
                 => /\ Cardinality(EntriesOf(tests, t)) = 1
                    /\ \A k \in EntriesOf(tests, t) :
                         /\ tests[k].expectedStatus = "skipped"
                         /\ Len(tests[k].attempts) = 1
                         /\ tests[k].attempts[1].status = "skipped"
          /\ \A t \in found.processed :
               /\ Cardinality(EntriesOf(tests, t)) = 1
               /\ t \notin found.synthesized

\* C12: the entry of a record started in normal mode with attempts
\* [failed, failed, passed] has isFlaky true, state passed and expectedStatus
\* failed; with attempts [passed] it has isFlaky false and expectedStatus
\* passed.
C12_FlakyDetection ==
  (reduced.phase = "entry" /\ reduced.testCase.mode = Undefined) =>
    /\ reduced.testCase.result = <<"failed", "failed", "passed">> =>
         /\ reduced.entry.isFlaky
         /\ reduced.entry.state = "passed"
         /\ reduced.entry.expectedStatus = "failed"
    /\ reduced.testCase.result = <<"passed">> =>
         /\ ~reduced.entry.isFlaky
         /\ reduced.entry.expectedStatus = "passed"

Gates(r) ==
  {r.specInfoDeferred[k] : k \in DOMAIN r.specInfoDeferred}
    \cup {r.testCaseDeferred[k] : k \in DOMAIN r.testCaseDeferred}
    \cup {r.resultsDeferred[k] : k \in DOMAIN r.resultsDeferred}

\* C13: no gate table has held more than one gate object under a key.
C13_GatesCreatedOnce ==
  \A gate \in Gates(rep) : gate.gen <= 1

\* C14: every entry of a report computed by file-result (file-start done) has
\* at least one attempt.
C14_EveryEntryHasAnAttempt ==
  \A i \in 1..Len(rep.emitted) :
    LET e == rep.emitted[i]
        tests == e.report.results.tests
    IN  sent.fileResult[e.file].started =>
          \A k \in 1..Len(tests) : Len(tests[k].attempts) >= 1

\* the directory onRunStart creates for the reports of the specs
InstancesDir == join("report", "instances")

\* C15: every report handed to the file system is written to a path of the
\* instances directory, when the run-level gate is resolved and the directory
\* exists.
C15_ReportsGoToInstancesDir ==
  \A job \in rep.io :
    job.pc = "writeReport" =>
      /\ rep.reportDirDeferred
      /\ InstancesDir \in rep.dirs
      /\ job.path = join(InstancesDir, reportFileName(job.specName))

WriteFailed(file) ==
  \E x \in rep.rejected : x.kind = "fileResult" /\ x.pc = "writeReport" /\ x.file = file

WrittenFor(e) ==
  \E k \in 1..Len(rep.written) : rep.written[k].file = e.file /\ rep.written[k].path = e.path

\* C16: the step in which the write of a report fails rejects that file-result
\* with the error, leaves the processed-spec counter, the records and the
\* gates as they are and the other handlers and writes pending; the counter
\* never exceeds the number of reports written; and once every handler has
\* finished, each report computed for a file whose write did not fail has been
\* written.
C16_WriteFailureIsContained ==
  /\ [](/\ rep.processedSpecsCount <= Len(rep.written)
        /\ Quiescent =>
             \A i \in 1..Len(rep.emitted) :
               WriteFailed(rep.emitted[i].file) \/ WrittenFor(rep.emitted[i]))
  /\ [][\A job \in rep.io :
          (/\ job.pc = "writeReport"
           /\ job \notin rep'.io
           /\ rep'.written = rep.written)
            => /\ Rejection(job) \in rep'.rejected
               /\ rep'.processedSpecsCount = rep.processedSpecsCount
               /\ rep'.specInfo = rep.specInfo
               /\ rep'.specInfoDeferred = rep.specInfoDeferred
               /\ rep'.testCaseDeferred = rep.testCaseDeferred
               /\ rep'.resultsDeferred = rep.resultsDeferred
               /\ rep'.io = rep.io \ {job}
               /\ rep'.jobs = rep.jobs
               /\ rep'.files = rep.files]_vars

\* the write of one project's report failed and another project's report of
\* the spec was written
C16_Reached ==
  \E file \in scope.files :
    /\ WriteFailed(file)
    /\ \E k \in 1..Len(rep.written) : rep.written[k].file # file

SkipOutcomes == {"skipped", "todo", "pending", "disabled"}

\* C18: every entry of a computed report with isFlaky true has a failed
\* attempt, and its last attempt passed.
C18_FlakyHasFailed ==
  \A i \in 1..Len(rep.emitted) :
    LET tests == rep.emitted[i].report.results.tests
    IN  \A k \in 1..Len(tests) :
          tests[k].isFlaky =>
            /\ \E a \in 1..Len(tests[k].attempts) : tests[k].attempts[a].status = "failed"
            /\ tests[k].attempts[Len(tests[k].attempts)].status = "passed"

\* the events of the file's one test were start, failed result, start, passed
\* result, each start before its result and all after file-start had
\* finished, and file-result was invoked after them, as the last event so
\* far, declaring the test
ScenarioB(file, t) ==
  /\ Has(sent.fileResult, file)
  /\ sent.fileResult[file].at + 1 = sent.events
  /\ sent.fileResult[file].late
  /\ sent.fileResult[file].declared = {t}
  /\ sent.inFile[<<file, t>>]
  /\ sent.race[<<file, t>>] = "paired"
  /\ sent.caseStart[<<file, t>>] = 2
  /\ sent.caseResult[<<file, t>>] = <<"failed", "passed">>

\* C19: the report computed for a spec whose one test failed and then passed
\* on retry has stats.flaky 1 and one entry, with isFlaky true and the two
\* attempts failed, passed; and stats.flaky of every report is the number of
\* its entries with isFlaky true.
C19_RetryIsFlaky ==
  \A i \in 1..Len(rep.emitted) :
    LET e == rep.emitted[i]
        tests == e.report.results.tests
    IN  /\ e.report.results.stats.flaky =
             Cardinality({k \in 1..Len(tests) : tests[k].isFlaky})
        /\ \A t \in scope.tests :
             ScenarioB(e.file, t) =>
               /\ e.report.results.stats.flaky = 1
               /\ Len(tests) = 1
               /\ tests[1].testId = t
               /\ tests[1].isFlaky
               /\ Len(tests[1].attempts) = 2
               /\ tests[1].attempts[1].status = "failed"
               /\ tests[1].attempts[2].status = "passed"

C19_Reached ==
  \E i \in 1..Len(rep.emitted) :
    /\ ScenarioB(rep.emitted[i].file, FirstTest)
    /\ rep.emitted[i].report.results.stats.flaky = 1

\* the events of the file's one test were one start and one passed result,
\* after file-start had finished, and file-result was invoked after them, as
\* the last event so far, declaring the test
ScenarioA(file, t) ==
  /\ Has(sent.fileResult, file)
  /\ sent.fileResult[file].at + 1 = sent.events
  /\ sent.fileResult[file].late
  /\ sent.fileResult[file].declared = {t}
  /\ sent.inFile[<<file, t>>]
  /\ sent.race[<<file, t>>] = "paired"
  /\ sent.caseStart[<<file, t>>] = 1
  /\ sent.caseResult[<<file, t>>] = <<"passed">>

\* C20: every entry of every computed report has retries = attempts + 1; the
\* report of a spec whose one test passed once has one entry with retries 2,
\* one attempt and isFlaky false, and stats.flaky 0.
C20_RetriesOffByOne ==
  \A i \in 1..Len(rep.emitted) :
    LET e == rep.emitted[i]
        tests == e.report.results.tests
    IN  /\ \A k \in 1..Len(tests) : tests[k].retries = Len(tests[k].attempts) + 1
        /\ \A t \in scope.tests :
             ScenarioA(e.file, t) =>
               /\ Len(tests) = 1
               /\ tests[1].testId = t
               /\ tests[1].retries = 2
               /\ Len(tests[1].attempts) = 1
               /\ ~tests[1].isFlaky
               /\ e.report.results.stats.flaky = 0

C20_Reached ==
  \E i \in 1..Len(rep.emitted) :
    /\ ScenarioA(rep.emitted[i].file, FirstTest)
    /\ rep.emitted[i].report.results.tests[1].retries = 2

\* the outcome kinds of a list of attempts
Kinds(result) == {result[i] : i \in 1..Len(result)}

\* C17: for a non-empty list of attempts, getRawTestStatus gives skipped when
\* all are skipped, todo, pending or disabled alike, passed when all passed,
\* failed when all failed, and failed for mixed outcomes and for any other
\* outcome kind.
C17_RawStatus ==
  (reduced.phase = "entry" /\ Len(reduced.testCase.result) >= 1) =>
    LET kinds == Kinds(reduced.testCase.result)
    IN  reduced.raw =
          IF Cardinality(kinds) = 1 /\ kinds \subseteq SkipOutcomes THEN "skipped"
          ELSE IF kinds = {"passed"} THEN "passed"
          ELSE "failed"

\* attempts of mixed outcomes that end with a pass were reduced
C17_Reached ==
  /\ reduced.phase = "entry"
  /\ Len(reduced.testCase.result) = MaxResults
  /\ Cardinality(Kinds(reduced.testCase.result)) > 1
  /\ reduced.testCase.result[MaxResults] = "passed"
  /\ reduced.raw = "failed"


\* C10: the record that case-result synthesizes for a test without a record
\* gets skip mode only if the delivered outcome is a skip.
C10_SynthesizedModeFollowsOutcome ==
  [][(/\ rep.jobs # <<>>
      /\ Head(rep.jobs).kind = "caseResult"
      /\ Head(rep.jobs).pc = "afterTestCase"
      /\ sent' = sent
      /\ rep' # rep)
       => LET job == Head(rep.jobs)
              specKey == getSpecKey(job.projectId, job.specName)
              testCaseKey == getTestCaseKey(job.projectId, job.specName, job.testId)
              before == rep.specInfo[specKey].testCaseList
              after == rep'.specInfo[specKey].testCaseList
          IN  (IndexOf(before, testCaseKey) = 0
               /\ after[IndexOf(after, testCaseKey)].mode = "skip")
                => job.status \in SkipOutcomes]_vars

\* the case-result handlers suspended in r, each known by its invocation
SuspendedResults(r) ==
  {r.jobs[i] : i \in {i \in 1..Len(r.jobs) : r.jobs[i].kind = "caseResult"}}

InvocationsOf(r, testCaseKey) ==
  {job.at : job \in {j \in SuspendedResults(r) :
                       getTestCaseKey(j.projectId, j.specName, j.testId) = testCaseKey}}

\* the attempts of the record the handler appends to
AttemptsUnder(r, job) ==
  LET specKey == getSpecKey(job.projectId, job.specName)
      testCaseKey == getTestCaseKey(job.projectId, job.specName, job.testId)
      list == r.specInfo[specKey].testCaseList
  IN  IF IndexOf(list, testCaseKey) = 0 THEN <<>>
      ELSE list[IndexOf(list, testCaseKey)].result

\* C21: when a case-result handler finishes, no handler invoked before it for
\* the same test-case key is still suspended, and its outcome has gone to the
\* end of the record's attempts: the outcomes of a key are appended in the
\* order their handlers were invoked.
C21_AppendsInInvocationOrder ==
  [][\A job \in SuspendedResults(rep) :
       LET testCaseKey == getTestCaseKey(job.projectId, job.specName, job.testId)
       IN  job.at \notin InvocationsOf(rep', testCaseKey) =>
             /\ \A at \in InvocationsOf(rep', testCaseKey) : job.at < at
             /\ AttemptsUnder(rep', job) = Append(AttemptsUnder(rep, job), job.status)]_vars

\* a handler invoked while another of its key was suspended is still
\* suspended, and the record holds the outcome of the other
C21_Reached ==
  \E i \in 1..Len(rep.jobs) :
    /\ rep.jobs[i].kind = "caseResult"
    /\ rep.jobs[i].behind = 1
    /\ rep.jobs[i].pc = "afterTestCase"
    /\ sent.fileResult = EmptyMap
    /\ Len(AttemptsUnder(rep, rep.jobs[i])) = 1
    /\ sent.caseResult[<<rep.jobs[i].file, rep.jobs[i].testId>>]
         = AttemptsUnder(rep, rep.jobs[i]) \o <<rep.jobs[i].status>>
    /\ rep.jobs[i].status # AttemptsUnder(rep, rep.jobs[i])[1]

\* what onRunStart makes before it resolves the run-level gate
RunStartArtifacts ==
  /\ "report" \in rep.dirs
  /\ InstancesDir \in rep.dirs
  /\ Has(rep.files, join("report", "config.json"))

RunStartFailed == \E x \in rep.rejected : x.kind = "runStart"

\* the continuations of file-start that are queued to run
QueuedFileStarts ==
  {i \in 1..Len(rep.jobs) : rep.jobs[i].kind = "fileStart"}

\* C22: the run-level gate is resolved only when the report directory, the
\* instances directory and the run configuration exist; it is never resolved
\* once a file-system operation of run-start has failed; and a file-start
\* handler goes on to create its Spec Record only with the gate resolved.
C22_RunGateAfterRunStart ==
  /\ [](rep.reportDirDeferred => RunStartArtifacts /\ ~RunStartFailed)
  /\ [](~rep.reportDirDeferred => QueuedFileStarts = {})
  /\ [][\A file \in scope.files :
          (Suspended("fileStart", file, "") /\ ~Suspended("fileStart", file, "")')
            => rep.reportDirDeferred]_vars

\* a file-start handler that found the gate unresolved has been released by
\* run-start and is about to create its Spec Record
C22_Reached ==
  /\ rep.reportDirDeferred
  /\ RunStartArtifacts
  /\ rep.jobs # <<>>
  /\ Head(rep.jobs).kind = "fileStart"
  /\ Head(rep.jobs).held
  /\ ~Has(rep.specInfo, getSpecKey(Head(rep.jobs).projectId, Head(rep.jobs).specName))

\* no handler invoked for the file is suspended
HandlersDone(file) ==
  /\ ~Suspended("fileStart", file, "")
  /\ ~Suspended("fileResult", file, "")
  /\ \A t \in scope.tests : ~Suspended("caseResult", file, t)

\* C23: when run-start has resolved the run-level gate and the runner has
\* delivered the file's start, a start and then a result for each test it
\* ran, and the file's result, the handlers of the file all finish and the
\* report of the spec is written, unless the write itself fails.
C23_ReportEventuallyWritten ==
  \A file \in Files :
    (file \in scope.files /\ rep.reportDirDeferred /\ DeliveredOnce(file))
      ~> (/\ HandlersDone(file)
          /\ \/ ReportsWritten(getSpecKey(file[1], file[2])) >= 1
             \/ WriteFailed(file))

\* the report was written under the spec key of the file it was invoked
\* for, by a file-result invoked after the file's start had finished
WrittenInOrder(w) ==
  /\ w.specKey = getSpecKey(w.file[1], w.file[2])
  /\ Has(sent.fileResult, w.file)
  /\ sent.fileResult[w.file].started

\* C24: two reports written for distinct spec keys, each for a file whose
\* start finished before its result was delivered, never have the same
\* artifact path, so no spec's report overwrites the report of another.
C24_ArtifactNamesDistinct ==
  \A i, j \in 1..Len(rep.written) :
    (/\ rep.written[i].specKey # rep.written[j].specKey
     /\ WrittenInOrder(rep.written[i])
     /\ WrittenInOrder(rep.written[j]))
      => rep.written[i].path # rep.written[j].path
====
